---- MODULE Spec2Model ----
(***************************************************************************)
(* Model of testgen.py: model-based test-case generation from a TLC state  *)
(* graph.  Two pipelines are modelled:                                     *)
(*   - the path-covering pipeline (parse_json_state_graph,                 *)
(*     compute_path_coverings, the trace construction of __main__);        *)
(*   - the action translator make_wt_action.                               *)
(* networkx is an external library: minimum_spanning_arborescence is       *)
(* modelled by its contract (a spanning subgraph of G that passes          *)
(* is_arborescence, or an exception), topological_sort and                 *)
(* single_source_shortest_path by their algorithms.                        *)
(***************************************************************************)
EXTENDS Integers, Sequences, FiniteSets, TLC

\* ---------------------------------------------------------------- bounds
MaxNode == 3        \* state fingerprints are 1..MaxNode
MaxEdges == 3       \* at most this many edges in the edges JSON
CvgDen == 2         \* cvg_pct ranges over k/CvgDen, k in 1..CvgDen
HashMod == 5        \* range of the modelled tuple hash
MaxTs == 2          \* timestamps of the storage model are 1..MaxTs
MaxLen == 4         \* at most this many traces handed to split
MaxShards == 5      \* --parallel_test_split ranges over 0..MaxShards
MaxTraceId == 2     \* the traces handed to split are drawn from 1..MaxTraceId

Fps == 1..MaxNode
None == "None"

VARIABLES
    \* inputs (files on disk, command line, process environment)
    json_edges,             \* the "edges" list of stategraph-edges.json
    states_json,            \* fp -> val of stategraph-states.json
    target_nodes_to_cover,  \* fingerprints of the symmetric graph
    cvg_num,                \* cvg_pct = cvg_num / CvgDen
    nx_arb,                 \* what the library answers for this graph
    hashseed,               \* PYTHONHASHSEED of the running process
    run,                    \* 1 or 2: the program is run twice on the inputs
    \* program state
    pc, err,
    G, node_map, edge_actions,
    mst, ordered_nodes, root_node, spaths, spath_keys_sorted,
    idx, all_covered_nodes, covering_paths, uncovered_target_nodes,
    num_target_nodes_covered,
    returned, traces,
    prev_run,               \* what the first run returned, kept for comparison
    \* translator state (make_wt_action)
    tpc, action_name, action_args, post_state, post_state2, result, result2,
    \* sharding state (split)
    spc, split_a, split_n, trace_chunks

cover_vars == <<json_edges, states_json, target_nodes_to_cover, cvg_num, nx_arb,
                hashseed, run, pc, err, G, node_map, edge_actions, mst,
                ordered_nodes, root_node, spaths, spath_keys_sorted, idx,
                all_covered_nodes, covering_paths, uncovered_target_nodes,
                num_target_nodes_covered, returned, prev_run, traces>>
trans_vars == <<tpc, action_name, action_args, post_state, post_state2, result, result2>>
split_vars == <<spc, split_a, split_n, trace_chunks>>
vars == <<cover_vars, trans_vars, split_vars>>

\* ------------------------------------------------------- generic helpers
Range(s) == {s[i] : i \in 1..Len(s)}
Last(s) == s[Len(s)]

RECURSIVE SetToSeqAsc(_)
SetToSeqAsc(S) ==
    IF S = {} THEN <<>>
    ELSE LET m == CHOOSE x \in S : \A y \in S : x <= y
         IN <<m>> \o SetToSeqAsc(S \ {m})

\* ------------------------------------------------------ networkx graphs
EmptyGraph == [nodes |-> {}, edges |-> {}]
\* No graph with nodes: stands for "the library raised".
NoArborescence == EmptyGraph

\* G.add_edge(u, v): adds both endpoints and the edge.
add_edge(g, u, v) == [nodes |-> g.nodes \cup {u, v}, edges |-> g.edges \cup {<<u, v>>}]

InDegree(g, n) == Cardinality({e \in g.edges : e[2] = n})
successors(g, n) == SetToSeqAsc({e[2] : e \in {d \in g.edges : d[1] = n}})

RECURSIVE WeakReach(_, _)
WeakReach(g, seen) ==
    LET nxt == seen \cup {e[2] : e \in {d \in g.edges : d[1] \in seen}}
                    \cup {e[1] : e \in {d \in g.edges : d[2] \in seen}}
    IN IF nxt = seen THEN seen ELSE WeakReach(g, nxt)

is_weakly_connected(g) ==
    g.nodes # {} /\ WeakReach(g, {CHOOSE n \in g.nodes : TRUE}) = g.nodes

\* nx.is_tree: n - 1 edges and weakly connected.
is_tree(g) ==
    /\ g.nodes # {}
    /\ Cardinality(g.nodes) - 1 = Cardinality(g.edges)
    /\ is_weakly_connected(g)

\* nx.is_arborescence: is_tree(G) and max in-degree <= 1.
is_arborescence(g) ==
    is_tree(g) /\ \A n \in g.nodes : InDegree(g, n) <= 1

\* The results minimum_spanning_arborescence may return for g: with unit
\* weights every spanning arborescence is minimum.
SpanningArborescences(g) ==
    {b \in {[nodes |-> g.nodes, edges |-> es] : es \in SUBSET g.edges} :
        is_arborescence(b)}

\* nx.topological_sort: Kahn's algorithm by generations.
RECURSIVE topological_sort(_)
topological_sort(g) ==
    LET zero == {n \in g.nodes : InDegree(g, n) = 0}
    IN IF zero = {} THEN <<>>
       ELSE SetToSeqAsc(zero) \o
            topological_sort([nodes |-> g.nodes \ zero,
                              edges |-> {e \in g.edges : e[1] \notin zero}])

\* nx.single_source_shortest_path: breadth-first search that records, in
\* discovery order, the path to every node reached.
RECURSIVE BfsPairs(_, _)
BfsPairs(g, level) ==
    IF level = <<>> THEN <<>>
    ELSE LET v == Head(level)
             adj == successors(g, v)
         IN [i \in 1..Len(adj) |-> <<v, adj[i]>>] \o BfsPairs(g, Tail(level))

PathEndingAt(paths, v) == paths[CHOOSE i \in 1..Len(paths) : Last(paths[i]) = v]
Reached(paths) == {Last(paths[i]) : i \in 1..Len(paths)}

RECURSIVE BfsAdd(_, _, _)
BfsAdd(cands, paths, nextlevel) ==
    IF cands = <<>> THEN [paths |-> paths, nextlevel |-> nextlevel]
    ELSE LET v == Head(cands)[1]
             w == Head(cands)[2]
         IN IF w \in Reached(paths)
            THEN BfsAdd(Tail(cands), paths, nextlevel)
            ELSE BfsAdd(Tail(cands),
                        Append(paths, Append(PathEndingAt(paths, v), w)),
                        Append(nextlevel, w))

RECURSIVE BfsLevels(_, _, _)
BfsLevels(g, level, paths) ==
    IF level = <<>> THEN paths
    ELSE LET r == BfsAdd(BfsPairs(g, level), paths, <<>>)
         IN BfsLevels(g, r.nextlevel, r.paths)

\* Sequence of paths in dict insertion order; the key of a path is its
\* last node.
single_source_shortest_path(g, source) == BfsLevels(g, <<source>>, <<<<source>>>>)

\* ------------------------------------------------ parse_json_state_graph
\* One edge object of the edges JSON.
JsonEdge(e) == [from |-> e[1], to |-> e[2], act |-> "Act", params |-> <<>>]

\* Line 66 with the key written as (to, from).
edge_actions_swapped(es) == [e \in {<<x[2], x[1]>> : x \in es} |-> JsonEdge(<<e[2], e[1]>>)]

\* Lines 57-66: the edge-action table, keyed by (from, to).
edge_actions_of(es) == [e \in es |-> JsonEdge(e)]

RECURSIVE AddEdges(_, _)
AddEdges(g, es) ==
    IF es = {} THEN g
    ELSE LET e == CHOOSE x \in es : TRUE
         IN AddEdges(add_edge(g, e[1], e[2]), es \ {e})

parse_json_state_graph ==
    /\ pc = "start"
    /\ G' = AddEdges(EmptyGraph, json_edges)
    /\ edge_actions' = edge_actions_of(json_edges)
    /\ node_map' = states_json
    /\ pc' = "parsed"
    /\ UNCHANGED <<json_edges, states_json, target_nodes_to_cover, cvg_num, nx_arb,
                   hashseed, run, err, mst, ordered_nodes, root_node, spaths,
                   spath_keys_sorted, idx, all_covered_nodes, covering_paths,
                   uncovered_target_nodes, num_target_nodes_covered, returned,
                   prev_run, traces>>
    /\ UNCHANGED trans_vars
    /\ UNCHANGED split_vars

\* ------------------------------------------------ compute_path_coverings
Raise(type, where) == [type |-> type, where |-> where]
NoErr == Raise(None, None)
Unassigned == -1
NoReturn == [covering_paths |-> <<>>, nothing |-> TRUE]
NoRun == [returned |-> NoReturn, spath_keys_sorted |-> <<>>]
NoResult == [raised |-> None, lines |-> <<>>]

\* Python's hash of a tuple of ints: a function of the contents alone
\* (only str and bytes hashes depend on PYTHONHASHSEED).
RECURSIVE hash_seeded(_)
hash_seeded(t) ==
    IF t = <<>> THEN hashseed
    ELSE (hash_seeded(SubSeq(t, 1, Len(t) - 1)) * 3 + Last(t) * (1 + hashseed)) % HashMod

RECURSIVE hash(_)
hash(t) ==
    IF t = <<>> THEN 1
    ELSE (hash(SubSeq(t, 1, Len(t) - 1)) * 3 + Last(t)) % HashMod

\* key=lambda x: (len(spaths[x]), hash(tuple(spaths[x]))), compared as tuples.
SortKey(sp, x) == <<Len(sp[x]), hash(sp[x])>>
\* The comparison of a sort without reverse=True.
KeyLess_ascending(a, b) == b[1] < a[1] \/ (a[1] = b[1] /\ b[2] < a[2])

KeyLess(a, b) == a[1] < b[1] \/ (a[1] = b[1] /\ a[2] < b[2])

\* sorted(..., reverse=True) is stable: equal keys keep their input order.
RECURSIVE InsertDesc(_, _, _)
InsertDesc(sp, out, x) ==
    IF out = <<>> THEN <<x>>
    ELSE IF KeyLess(SortKey(sp, Head(out)), SortKey(sp, x))
         THEN <<x>> \o out
         ELSE <<Head(out)>> \o InsertDesc(sp, Tail(out), x)

RECURSIVE sorted_reverse(_, _, _)
sorted_reverse(sp, keys, out) ==
    IF keys = <<>> THEN out
    ELSE sorted_reverse(sp, Tail(keys), InsertDesc(sp, out, Head(keys)))

\* Lines 87-90: the arborescence, and the "% of original" print.
ComputeMst ==
    /\ pc = "parsed"
    /\ IF nx_arb = NoArborescence
       THEN /\ err' = Raise("NetworkXException", "compute_path_coverings")
            /\ pc' = "raised"
            /\ mst' = mst
       ELSE IF Cardinality(G.edges) = 0
       THEN /\ err' = Raise("ZeroDivisionError", "compute_path_coverings")
            /\ pc' = "raised"
            /\ mst' = nx_arb
       ELSE /\ mst' = nx_arb
            /\ pc' = "mst"
            /\ err' = err
    /\ UNCHANGED <<json_edges, states_json, target_nodes_to_cover, cvg_num, nx_arb,
                   hashseed, run, G, node_map, edge_actions, ordered_nodes,
                   root_node, spaths, spath_keys_sorted, idx, all_covered_nodes,
                   covering_paths, uncovered_target_nodes,
                   num_target_nodes_covered, returned, prev_run, traces>>
    /\ UNCHANGED trans_vars
    /\ UNCHANGED split_vars

\* Line 108: set(target_nodes_to_cover).
initial_uncovered_all(targets, tree) == tree.nodes
initial_uncovered(targets, tree) == targets

root_of_last(ordered) == ordered[Len(ordered)]
root_of(ordered) == ordered[1]

\* Lines 92-108: root, root paths, candidate order, loop initialisation.
SortPaths ==
    /\ pc = "mst"
    /\ LET ordered == topological_sort(mst)
           root == root_of(ordered)
           paths == single_source_shortest_path(mst, root)
           sp == [n \in Reached(paths) |-> PathEndingAt(paths, n)]
           keys == [i \in 1..Len(paths) |-> Last(paths[i])]
       IN /\ ordered_nodes' = ordered
          /\ root_node' = root
          /\ spaths' = sp
          /\ spath_keys_sorted' = sorted_reverse(sp, keys, <<>>)
    /\ all_covered_nodes' = {}
    /\ covering_paths' = <<>>
    /\ uncovered_target_nodes' = initial_uncovered(target_nodes_to_cover, mst)
    /\ idx' = 1
    /\ pc' = "loop"
    /\ UNCHANGED <<json_edges, states_json, target_nodes_to_cover, cvg_num, nx_arb,
                   hashseed, run, err, G, node_map, edge_actions, mst,
                   num_target_nodes_covered, returned, prev_run, traces>>
    /\ UNCHANGED trans_vars
    /\ UNCHANGED split_vars

\* Line 111 intersecting the candidate with the whole target set.
new_covered_of_all_targets == target_nodes_to_cover \cap Range(spaths[spath_keys_sorted[idx]])

\* Line 111: the target nodes this candidate covers for the first time.
new_covered_target_nodes == uncovered_target_nodes \cap Range(spaths[spath_keys_sorted[idx]])

\* Lines 111-113: the candidate covers no new target node.
LoopSkip ==
    /\ pc = "loop"
    /\ idx <= Len(spath_keys_sorted)
    /\ new_covered_target_nodes = {}
    /\ idx' = idx + 1
    /\ UNCHANGED <<json_edges, states_json, target_nodes_to_cover, cvg_num, nx_arb,
                   hashseed, run, pc, err, G, node_map, edge_actions, mst,
                   ordered_nodes, root_node, spaths, spath_keys_sorted,
                   all_covered_nodes, covering_paths, uncovered_target_nodes,
                   num_target_nodes_covered, returned, prev_run, traces>>
    /\ UNCHANGED trans_vars
    /\ UNCHANGED split_vars

\* Line 128 with > in place of >=.
threshold_strict(n, total) == n * CvgDen > cvg_num * total
threshold_off_by_one(n, total) == (n + 1) * CvgDen >= cvg_num * total
threshold_without_total(n, total) == n * CvgDen >= cvg_num

\* cvg threshold test of line 128, in integers: n >= (cvg_num/CvgDen) * total.
threshold_reached(n, total) == n * CvgDen >= cvg_num * total

\* Lines 116-129: the candidate is accepted.
LoopAccept ==
    /\ pc = "loop"
    /\ idx <= Len(spath_keys_sorted)
    /\ new_covered_target_nodes # {}
    /\ LET new == new_covered_target_nodes
           unc == uncovered_target_nodes \ new
           total == Cardinality(target_nodes_to_cover)
           n == total - Cardinality(unc)
       IN /\ all_covered_nodes' = all_covered_nodes \cup new
          /\ uncovered_target_nodes' = unc
          /\ num_target_nodes_covered' = n
          /\ IF total = 0
             THEN /\ err' = Raise("ZeroDivisionError", "compute_path_coverings")
                  /\ pc' = "raised"
                  /\ UNCHANGED <<covering_paths, idx>>
             ELSE /\ covering_paths' = Append(covering_paths, spaths[spath_keys_sorted[idx]])
                  /\ err' = err
                  /\ IF threshold_reached(n, total)
                     THEN pc' = "exit" /\ idx' = idx
                     ELSE pc' = "loop" /\ idx' = idx + 1
    /\ UNCHANGED <<json_edges, states_json, target_nodes_to_cover, cvg_num, nx_arb,
                   hashseed, run, G, node_map, edge_actions, mst, ordered_nodes,
                   root_node, spaths, spath_keys_sorted, returned, prev_run,
                   traces>>
    /\ UNCHANGED trans_vars
    /\ UNCHANGED split_vars

\* The for statement of line 109 finds its iterator exhausted.
LoopExhausted ==
    /\ pc = "loop"
    /\ idx > Len(spath_keys_sorted)
    /\ pc' = "exit"
    /\ UNCHANGED <<json_edges, states_json, target_nodes_to_cover, cvg_num, nx_arb,
                   hashseed, run, err, G, node_map, edge_actions, mst,
                   ordered_nodes, root_node, spaths, spath_keys_sorted, idx,
                   all_covered_nodes, covering_paths, uncovered_target_nodes,
                   num_target_nodes_covered, returned, prev_run, traces>>
    /\ UNCHANGED trans_vars
    /\ UNCHANGED split_vars

\* Line 151: what the call hands to its caller, by name.
return_value == [covering_paths |-> covering_paths]

Return ==
    /\ pc = "exit"
    /\ returned' = return_value
    /\ pc' = "returned"
    /\ UNCHANGED <<json_edges, states_json, target_nodes_to_cover, cvg_num, nx_arb,
                   hashseed, run, err, G, node_map, edge_actions, mst,
                   ordered_nodes, root_node, spaths, spath_keys_sorted, idx,
                   all_covered_nodes, covering_paths, uncovered_target_nodes,
                   num_target_nodes_covered, prev_run, traces>>
    /\ UNCHANGED trans_vars
    /\ UNCHANGED split_vars

\* ------------------------------------------- __main__: trace construction
\* Lines 516-519: the consecutive node pairs of a covering path.
path_edges_of(cpath) == [i \in 1..(Len(cpath) - 1) |-> <<cpath[i], cpath[i + 1]>>]

build_trace_post_from(cpath) ==
    LET path_edges == path_edges_of(cpath)
    IN [i \in 1..Len(path_edges) |->
           LET act == edge_actions[path_edges[i]]
           IN <<<<1, node_map[act.from]>>,
                [context |-> act.params, name |-> act.act],
                <<2, node_map[act.from]>>>>]

\* Lines 522-538: trace["action"], one [pre_state, transition, post_state]
\* per edge of the path.
build_trace(cpath) ==
    LET path_edges == path_edges_of(cpath)
    IN [i \in 1..Len(path_edges) |->
           LET act == edge_actions[path_edges[i]]
           IN <<<<1, node_map[act.from]>>,
                [context |-> act.params, name |-> act.act],
                <<2, node_map[act.to]>>>>]

\* Lines 510-539: mean() of the path lengths, then one trace per path.
MainBuildTraces ==
    /\ pc = "returned"
    /\ LET cps == returned.covering_paths
       IN IF Len(cps) = 0
          THEN /\ err' = Raise("ZeroDivisionError", "__main__")
               /\ pc' = "raised"
               /\ traces' = traces
          ELSE IF \E i \in 1..Len(cps) :
                     Range(path_edges_of(cps[i])) \ DOMAIN edge_actions # {}
          THEN /\ err' = Raise("KeyError", "__main__")
               /\ pc' = "raised"
               /\ traces' = traces
          ELSE /\ traces' = [i \in 1..Len(cps) |-> build_trace(cps[i])]
               /\ pc' = "done"
               /\ err' = err
    /\ UNCHANGED <<json_edges, states_json, target_nodes_to_cover, cvg_num, nx_arb,
                   hashseed, run, G, node_map, edge_actions, mst, ordered_nodes,
                   root_node, spaths, spath_keys_sorted, idx, all_covered_nodes,
                   covering_paths, uncovered_target_nodes,
                   num_target_nodes_covered, returned, prev_run>>
    /\ UNCHANGED trans_vars
    /\ UNCHANGED split_vars

\* The program is started a second time on the same files, in a fresh
\* process (cleared memory, another hash seed).
Rerun ==
    /\ run = 1
    /\ pc \in {"done", "raised"}
    /\ run' = 2
    /\ hashseed' \in {0, 1} \ {hashseed}
    /\ prev_run' = [returned |-> returned, spath_keys_sorted |-> spath_keys_sorted]
    /\ pc' = "start"
    /\ err' = NoErr
    /\ G' = EmptyGraph
    /\ node_map' = <<>>
    /\ edge_actions' = <<>>
    /\ mst' = EmptyGraph
    /\ ordered_nodes' = <<>>
    /\ root_node' = 0
    /\ spaths' = <<>>
    /\ spath_keys_sorted' = <<>>
    /\ idx' = 0
    /\ all_covered_nodes' = {}
    /\ covering_paths' = <<>>
    /\ uncovered_target_nodes' = {}
    /\ num_target_nodes_covered' = Unassigned
    /\ returned' = NoReturn
    /\ traces' = <<>>
    /\ UNCHANGED <<json_edges, states_json, target_nodes_to_cover, cvg_num, nx_arb>>
    /\ UNCHANGED trans_vars
    /\ UNCHANGED split_vars

\* ---------------------------------------------------- the cover pipeline
\* TLC writes one state per fingerprint: distinct fingerprints carry
\* distinct snapshots.
StatesJson == [n \in Fps |-> 101 + MaxNode - n]

SplitIdle ==
    /\ spc = "idle"
    /\ split_a = <<>>
    /\ split_n = 1
    /\ trace_chunks = <<>>

TransIdle ==
    /\ tpc = "idle"
    /\ action_name = None
    /\ action_args = <<>>
    /\ post_state = <<>>
    /\ post_state2 = <<>>
    /\ result = NoResult
    /\ result2 = NoResult

\* The state before parse_json_state_graph is called: nothing is loaded yet.
CoverStart ==
    /\ hashseed = 0
    /\ run = 1
    /\ pc = "start"
    /\ err = NoErr
    /\ G = EmptyGraph
    /\ node_map = <<>>
    /\ edge_actions = <<>>
    /\ mst = EmptyGraph
    /\ ordered_nodes = <<>>
    /\ root_node = 0
    /\ spaths = <<>>
    /\ spath_keys_sorted = <<>>
    /\ idx = 0
    /\ all_covered_nodes = {}
    /\ covering_paths = <<>>
    /\ uncovered_target_nodes = {}
    /\ num_target_nodes_covered = Unassigned
    /\ returned = NoReturn
    /\ prev_run = NoRun
    /\ traces = <<>>

\* The input files and arguments of a run.  When the library raises at
\* line 87 the states file, the target set and the threshold are never
\* read, so one value of each stands for all.
Init ==
    /\ json_edges \in {es \in SUBSET (Fps \X Fps) : Cardinality(es) <= MaxEdges}
    /\ LET arbs == SpanningArborescences(AddEdges(EmptyGraph, json_edges))
       IN IF arbs = {}
          THEN /\ nx_arb = NoArborescence
               /\ states_json = StatesJson
               /\ target_nodes_to_cover = {}
               /\ cvg_num = CvgDen
          ELSE /\ nx_arb \in arbs
               /\ states_json = StatesJson
               /\ target_nodes_to_cover \in SUBSET Fps
               /\ cvg_num \in 1..CvgDen
    /\ CoverStart
    /\ TransIdle
    /\ SplitIdle

Next ==
    \/ parse_json_state_graph
    \/ ComputeMst
    \/ SortPaths
    \/ LoopSkip
    \/ LoopAccept
    \/ LoopExhausted
    \/ Return
    \/ MainBuildTraces
    \/ Rerun

Spec == Init /\ [][Next]_vars

\* Tree-shaped state graphs one node larger than those of Init, rooted at
\* node 1 (the initial state of a dump): the graph is already an
\* arborescence, so the library has exactly one to return.
DeepFps == 1..(MaxNode + 1)

DeepStatesJson == [n \in DeepFps |-> 101 + MaxNode + 1 - n]

TreeEdgeSets ==
    {es \in {{<<p[n], n>> : n \in DeepFps \ {1}} : p \in [DeepFps \ {1} -> DeepFps]} :
        is_arborescence(AddEdges(EmptyGraph, es))}

InitTrees ==
    /\ json_edges \in TreeEdgeSets
    /\ nx_arb = AddEdges(EmptyGraph, json_edges)
    /\ states_json = DeepStatesJson
    /\ target_nodes_to_cover \in SUBSET DeepFps
    /\ cvg_num \in 1..CvgDen
    /\ CoverStart
    /\ TransIdle
    /\ SplitIdle

NextTrees ==
    \/ parse_json_state_graph
    \/ ComputeMst
    \/ SortPaths
    \/ LoopSkip
    \/ LoopAccept
    \/ LoopExhausted
    \/ Return
    \/ MainBuildTraces

SpecTrees == InitTrees /\ [][NextTrees]_vars

\* ------------------------------------------------------- make_wt_action
\* A line of generated test code is the sequence of its ";"-separated
\* statements; the indentation belongs to the first statement.
Q(str) == "\"" \o str \o "\""

\* str() of the small integers that occur (f-string interpolation).
IntStr(n) == <<"0", "1", "2", "3", "4">>[n + 1]

\* action_args['ignorePrepare'].replace("\"", "")
strip_quotes(str) ==
    CASE str = "\"false\"" -> "false"
      [] str = "\"true\"" -> "true"
      [] str = "\"force\"" -> "force"
      [] OTHER -> str

\* action_name.lower().replace("mdbtxn", "transaction_")
lower_replace(name) ==
    CASE name = "StartTransaction" -> "starttransaction"
      [] name = "TransactionWrite" -> "transactionwrite"
      [] name = "TransactionRead" -> "transactionread"
      [] name = "TransactionRemove" -> "transactionremove"
      [] name = "PrepareTransaction" -> "preparetransaction"
      [] name = "CommitTransaction" -> "committransaction"
      [] name = "CommitPreparedTransaction" -> "commitpreparedtransaction"
      [] name = "AbortTransaction" -> "aborttransaction"
      [] name = "SetStableTimestamp" -> "setstabletimestamp"
      [] name = "SetOldestTimestamp" -> "setoldesttimestamp"
      [] name = "RollbackToStable" -> "rollbacktostable"
      [] name = "Checkpoint" -> "checkpoint"
      [] name = "MDBTxnStart" -> "transaction_start"

\* The keys of action_args that the translation of a kind subscripts.
SubscriptedKeys(name) ==
    CASE name = "StartTransaction" -> {"readTs"}
      [] name = "TransactionWrite" -> {"k", "v"}
      [] name = "TransactionRead" -> {"k", "v"}
      [] name = "TransactionRemove" -> {"k"}
      [] name = "PrepareTransaction" -> {"prepareTs"}
      [] name = "CommitTransaction" -> {"commitTs"}
      [] name = "CommitPreparedTransaction" -> {"commitTs", "durableTs"}
      [] name \in {"SetStableTimestamp", "SetOldestTimestamp"} -> {"ts"}
      [] OTHER -> {}

tid_of(args) == IF "tid" \in DOMAIN args THEN args.tid ELSE ""

\* Lines 157-163 (callers always pass a post-state).
err_code_of(args, post) ==
    IF "tid" \in DOMAIN args THEN post[2].txnStatus.n[args.tid] ELSE None

txn_cursor_of(tid) == "self.cursors[" \o Q(tid) \o "]"
txn_session_of(tid) == "sess_" \o tid

\* Lines 169-171.
ignore_prepare_of(args) ==
    IF "ignorePrepare" \in DOMAIN args THEN strip_quotes(args.ignorePrepare) ELSE "false"

\* Lines 179-182: the assertion appended to the read statements.
read_assertion(args, txn_cursor) ==
    IF args.v = "NoValue"
    THEN "self.assertEquals(sret, wiredtiger.WT_NOTFOUND)"
    ELSE "self.assertEquals(" \o txn_cursor \o ".get_value(), " \o Q(args.v) \o ")"

\* Lines 164-201: wt_action_name, as its ";"-separated statements.
wt_action_name_of(name, args) ==
    LET tid == tid_of(args)
        txn_cursor == txn_cursor_of(tid)
        txn_session == txn_session_of(tid)
    IN CASE name = "StartTransaction" ->
              <<"self.begin_transaction(txn_session, " \o ignore_prepare_of(args) \o ","
                    \o IntStr(args.readTs) \o "))",
                txn_cursor \o " = " \o txn_session \o ".open_cursor(self.uri, None)">>
         [] name = "TransactionWrite" ->
              <<txn_cursor \o ".set_key(" \o Q(args.k) \o ")",
                txn_cursor \o ".set_value(" \o Q(args.v) \o ")",
                txn_cursor \o ".insert()">>
         [] name = "TransactionRead" ->
              <<txn_cursor \o ".set_key(" \o Q(args.k) \o ")",
                "sret = " \o txn_cursor \o ".search()",
                read_assertion(args, txn_cursor)>>
         [] name = "TransactionRemove" ->
              <<txn_cursor \o ".set_key(" \o Q(args.k) \o ")",
                "sret = " \o txn_cursor \o ".remove()">>
         [] name = "PrepareTransaction" ->
              <<txn_session \o ".prepare_transaction('prepare_timestamp=' + self.timestamp_str("
                    \o IntStr(args.prepareTs) \o "))">>
         [] name = "CommitTransaction" ->
              <<txn_session \o ".commit_transaction('commit_timestamp=' + self.timestamp_str("
                    \o IntStr(args.commitTs) \o "))">>
         [] name = "CommitPreparedTransaction" ->
              <<txn_session \o ".commit_transaction('commit_timestamp=' + self.timestamp_str("
                    \o IntStr(args.commitTs) \o ") + ',durable_timestamp=' + self.timestamp_str("
                    \o IntStr(args.durableTs) \o "))">>
         [] name = "AbortTransaction" ->
              <<txn_session \o ".rollback_transaction()">>
         [] name = "SetStableTimestamp" ->
              <<"self.conn.set_timestamp('stable_timestamp='+self.timestamp_str("
                    \o IntStr(args.ts) \o "))">>
         [] name = "SetOldestTimestamp" ->
              <<"self.conn.set_timestamp('oldest_timestamp='+self.timestamp_str("
                    \o IntStr(args.ts) \o "))">>
         [] name = "RollbackToStable" ->
              <<"self.conn.rollback_to_stable()">>
         [] OTHER -> <<lower_replace(name)>>

\* Lines 204-210: the try/except block around the statements.
try_block(stmts) ==
    << <<"res,sret = None,None">>,
       <<"try:">>,
       <<"    " \o Head(stmts)>> \o Tail(stmts),
       <<"except wiredtiger.WiredTigerError as e:">>,
       <<"    res = e">> >>

\* Lines 211-216: res_expected, as the f-string prints it.
res_expected_of(err_code) == IF err_code = "WT_ROLLBACK" THEN "1" ELSE None

\* Lines 213-226: the assertion lines of the four result classes.
result_lines(name, err_code) ==
    CASE err_code = "WT_ROLLBACK" ->
            << <<"self.assertNotEqual(res, None)">>,
               <<"self.assertTrue(wiredtiger.wiredtiger_strerror(wiredtiger.WT_ROLLBACK) in str(res))">> >>
      [] err_code = "WT_NOTFOUND" ->
            << <<"self.assertEqual(sret, wiredtiger.WT_NOTFOUND)">> >>
      [] err_code = "WT_PREPARE_CONFLICT" ->
            << <<"self.assertTrue(wiredtiger.wiredtiger_strerror(wiredtiger.WT_PREPARE_CONFLICT) in str(res))">> >>
      [] OTHER ->
            << <<"self.assertEquals(res, None)">> >> \o
            (IF name = "TransactionRemove" THEN << <<"self.assertEquals(sret, 0)">> >> ELSE <<>>)

\* The compact output without the err_code argument.
compact_lines_no_err_code(name, args, err_code, lines) ==
    LET tid == tid_of(args)
        txn_session == txn_session_of(tid)
        tail == ", " \o res_expected_of(err_code) \o ")"
    IN CASE name = "StartTransaction" ->
              << <<"self.begin_transaction(" \o Q(tid) \o ", " \o txn_session \o ", "
                     \o IntStr(args.readTs) \o ", " \o Q(ignore_prepare_of(args)) \o tail>> >>
         [] name = "TransactionWrite" ->
              << <<"self.transaction_write(" \o Q(tid) \o ", " \o Q(args.k) \o tail>> >>
         [] name = "TransactionRead" ->
              << <<"self.transaction_read(" \o Q(tid) \o ", " \o Q(args.k) \o ", "
                     \o Q(args.v) \o tail>> >>
         [] name = "TransactionRemove" ->
              << <<"self.transaction_remove(" \o Q(tid) \o ", " \o Q(args.k) \o tail>> >>
         [] name = "CommitTransaction" ->
              << <<"self.commit_transaction(" \o txn_session \o ", " \o Q(tid) \o ", "
                     \o IntStr(args.commitTs) \o tail>> >>
         [] name = "CommitPreparedTransaction" ->
              << <<"self.commit_prepared_transaction(" \o txn_session \o ", "
                     \o IntStr(args.commitTs) \o ", " \o IntStr(args.durableTs) \o tail>> >>
         [] name = "PrepareTransaction" ->
              << <<"self.prepare_transaction(" \o txn_session \o ", "
                     \o IntStr(args.prepareTs) \o tail>> >>
         [] name = "AbortTransaction" ->
              << <<"self.abort_transaction(" \o txn_session \o ", " \o Q(tid) \o tail>> >>
         [] OTHER -> lines

\* The compact output with the read entry missing: reads keep the
\* try/except block and its inline assertions.
compact_lines_without_read(name, args, err_code, lines) ==
    IF name = "TransactionRead" THEN lines
    ELSE compact_lines_no_err_code(name, args, err_code, lines)

\* Lines 231-246: the compact output replaces the lines of eight kinds.
compact_lines(name, args, err_code, lines) ==
    LET tid == tid_of(args)
        txn_session == txn_session_of(tid)
        tail == ", " \o res_expected_of(err_code) \o ", " \o Q(err_code) \o ")"
    IN CASE name = "StartTransaction" ->
              << <<"self.begin_transaction(" \o Q(tid) \o ", " \o txn_session \o ", "
                     \o IntStr(args.readTs) \o ", " \o Q(ignore_prepare_of(args)) \o tail>> >>
         [] name = "TransactionWrite" ->
              << <<"self.transaction_write(" \o Q(tid) \o ", " \o Q(args.k) \o tail>> >>
         [] name = "TransactionRead" ->
              << <<"self.transaction_read(" \o Q(tid) \o ", " \o Q(args.k) \o ", "
                     \o Q(args.v) \o tail>> >>
         [] name = "TransactionRemove" ->
              << <<"self.transaction_remove(" \o Q(tid) \o ", " \o Q(args.k) \o tail>> >>
         [] name = "CommitTransaction" ->
              << <<"self.commit_transaction(" \o txn_session \o ", " \o Q(tid) \o ", "
                     \o IntStr(args.commitTs) \o tail>> >>
         [] name = "CommitPreparedTransaction" ->
              << <<"self.commit_prepared_transaction(" \o txn_session \o ", "
                     \o IntStr(args.commitTs) \o ", " \o IntStr(args.durableTs) \o tail>> >>
         [] name = "PrepareTransaction" ->
              << <<"self.prepare_transaction(" \o txn_session \o ", "
                     \o IntStr(args.prepareTs) \o tail>> >>
         [] name = "AbortTransaction" ->
              << <<"self.abort_transaction(" \o txn_session \o ", " \o Q(tid) \o tail>> >>
         [] OTHER -> lines

\* Lines 249-260: the timestamp check appended when a timestamp is set.
check_timestamps_lines(post) ==
    LET all_durable_ts == post[2].allDurableTs.n
        stable_raw == post[2].stableTs.n
        oldest_raw == post[2].oldestTs.n
        stable_ts == IF stable_raw < 0 THEN None ELSE IntStr(stable_raw)
        oldest_ts == IF oldest_raw < 0 THEN None ELSE IntStr(oldest_raw)
    IN IF stable_raw >= 0 \/ all_durable_ts # 0 \/ oldest_raw >= 0
       THEN << <<"self.check_timestamps(all_durable=" \o IntStr(all_durable_ts)
                   \o ", stable_ts=" \o stable_ts \o ", oldest_ts=" \o oldest_ts \o ")">> >>
       ELSE <<>>

\* The whole function: a missing key of action_args raises KeyError,
\* otherwise the list of lines is returned.
make_wt_action(pre_state, name, args, post) ==
    IF ~(SubscriptedKeys(name) \subseteq DOMAIN args)
    THEN [raised |-> "KeyError", lines |-> <<>>]
    ELSE LET err_code == err_code_of(args, post)
             generic == try_block(wt_action_name_of(name, args)) \o result_lines(name, err_code)
             lines == compact_lines(name, args, err_code, generic)
         IN [raised |-> None, lines |-> lines \o check_timestamps_lines(post)]

\* ------------------------------------------------- the translator's inputs
Tids == {"t1", "t2"}
Keys == {"k1"}
Values == {"NoValue", "t1"}
Timestamps == 1..MaxTs
Statuses == {"STATUS_OK", "WT_ROLLBACK", "WT_NOTFOUND", "WT_PREPARE_CONFLICT"}
IgnorePrepareOptions == {"\"false\"", "\"true\""}

\* The eleven kinds of the Storage specification.
KnownActions ==
    {"StartTransaction", "TransactionWrite", "TransactionRead", "TransactionRemove",
     "PrepareTransaction", "CommitTransaction", "CommitPreparedTransaction",
     "AbortTransaction", "SetStableTimestamp", "SetOldestTimestamp", "RollbackToStable"}

Edge(name, args) == [name |-> name, args |-> args]

\* Edge labels as TLC dumps them, two kinds the table does not know, and
\* two labels with a parameter missing.
ActionInputs ==
    {Edge("StartTransaction", [tid |-> t, readTs |-> r]) : t \in Tids, r \in Timestamps}
    \cup {Edge("StartTransaction", [tid |-> t, readTs |-> r, ignorePrepare |-> ip]) :
            t \in Tids, r \in Timestamps, ip \in IgnorePrepareOptions}
    \cup {Edge("TransactionWrite", [tid |-> t, k |-> k, v |-> v]) :
            t \in Tids, k \in Keys, v \in Values \ {"NoValue"}}
    \cup {Edge("TransactionRead", [tid |-> t, k |-> k, v |-> v]) :
            t \in Tids, k \in Keys, v \in Values}
    \cup {Edge("TransactionRemove", [tid |-> t, k |-> k]) : t \in Tids, k \in Keys}
    \cup {Edge("PrepareTransaction", [tid |-> t, prepareTs |-> r]) : t \in Tids, r \in Timestamps}
    \cup {Edge("CommitTransaction", [tid |-> t, commitTs |-> r]) : t \in Tids, r \in Timestamps}
    \cup {Edge("CommitPreparedTransaction", [tid |-> t, commitTs |-> r, durableTs |-> d]) :
            t \in Tids, r \in Timestamps, d \in Timestamps}
    \cup {Edge("AbortTransaction", [tid |-> t]) : t \in Tids}
    \cup {Edge("SetStableTimestamp", [ts |-> r]) : r \in Timestamps}
    \cup {Edge("SetOldestTimestamp", [ts |-> r]) : r \in Timestamps}
    \cup {Edge("RollbackToStable", <<>>), Edge("Checkpoint", <<>>)}
    \cup {Edge("MDBTxnStart", [tid |-> t]) : t \in Tids}
    \cup {Edge("TransactionRead", [tid |-> t, k |-> k]) : t \in Tids, k \in Keys}
    \cup {Edge("TransactionRemove", [tid |-> t]) : t \in Tids}

\* post_state = [2, node_map[to]]: the snapshot fields the translator reads.
PostStatesOf(args) ==
    {<<2, [txnStatus |-> [n |-> [t \in Tids |-> IF t = tid_of(args) THEN st ELSE ot]],
           allDurableTs |-> [n |-> ad],
           stableTs |-> [n |-> sb],
           oldestTs |-> [n |-> od]]>> :
        st \in Statuses, ot \in {"STATUS_OK", "WT_ROLLBACK"},
        ad \in {0, 1}, sb \in {-1, 1}, od \in {-1, 1}}

CoverIdle ==
    /\ json_edges = {}
    /\ states_json = <<>>
    /\ target_nodes_to_cover = {}
    /\ cvg_num = CvgDen
    /\ nx_arb = NoArborescence
    /\ hashseed = 0
    /\ run = 1
    /\ pc = "idle"
    /\ err = NoErr
    /\ G = EmptyGraph
    /\ node_map = <<>>
    /\ edge_actions = <<>>
    /\ mst = EmptyGraph
    /\ ordered_nodes = <<>>
    /\ root_node = 0
    /\ spaths = <<>>
    /\ spath_keys_sorted = <<>>
    /\ idx = 0
    /\ all_covered_nodes = {}
    /\ covering_paths = <<>>
    /\ uncovered_target_nodes = {}
    /\ num_target_nodes_covered = Unassigned
    /\ returned = NoReturn
    /\ prev_run = NoRun
    /\ traces = <<>>

InitTranslate ==
    /\ CoverIdle
    /\ tpc = "ready"
    /\ \E a \in ActionInputs :
          /\ action_name = a.name
          /\ action_args = a.args
          /\ post_state \in PostStatesOf(a.args)
          /\ post_state2 \in PostStatesOf(a.args)
    /\ result = NoResult
    /\ result2 = NoResult
    /\ SplitIdle

\* make_wt_action on the action with its post-state.
Translate ==
    /\ tpc = "ready"
    /\ result' = make_wt_action(None, action_name, action_args, post_state)
    /\ tpc' = "first"
    /\ UNCHANGED <<action_name, action_args, post_state, post_state2, result2>>
    /\ UNCHANGED cover_vars
    /\ UNCHANGED split_vars

\* make_wt_action on the same action with another post-state.
TranslateAgain ==
    /\ tpc = "first"
    /\ result2' = make_wt_action(None, action_name, action_args, post_state2)
    /\ tpc' = "both"
    /\ UNCHANGED <<action_name, action_args, post_state, post_state2, result>>
    /\ UNCHANGED cover_vars
    /\ UNCHANGED split_vars

NextTranslate ==
    \/ Translate
    \/ TranslateAgain

SpecTranslate == InitTranslate /\ [][NextTranslate]_vars

\* ---------------------------------------------------------------------
\* Sharding of the traces (lines 19-22, 541-547)

min(x, y) == IF x <= y THEN x ELSE y

\* a[s:e] for 0 <= s: both ends are clamped to len(a), and s >= e gives [].
Slice(a, s, e) == SubSeq(a, min(s, Len(a)) + 1, min(e, Len(a)))

\* Line 22 with the remainder m left out of the slice bounds.
split_without_remainder(a, n) ==
    LET k == Len(a) \div n
    IN [i \in 1..n |-> Slice(a, (i - 1) * k, i * k)]

\* Lines 20-22 for n >= 1; chunk i of the model is the code's chunk i-1.
split(a, n) ==
    LET k == Len(a) \div n
        m == Len(a) % n
    IN [i \in 1..n |-> Slice(a, (i - 1) * k + min(i - 1, m), i * k + min(i, m))]

TraceIds == 1..MaxTraceId

RECURSIVE SeqsUpTo(_, _)
SeqsUpTo(S, n) ==
    IF n = 0 THEN {<<>>}
    ELSE LET shorter == SeqsUpTo(S, n - 1)
         IN shorter \cup {Append(q, x) : q \in {r \in shorter : Len(r) = n - 1}, x \in S}

InitSplit ==
    /\ CoverIdle
    /\ TransIdle
    /\ spc = "start"
    /\ split_a \in SeqsUpTo(TraceIds, MaxLen)
    /\ split_n \in 0..MaxShards
    /\ trace_chunks = <<>>

\* Line 542: list(split(traces, args.parallel_test_split)); divmod by zero
\* raises ZeroDivisionError.
SplitTraces ==
    /\ spc = "start"
    /\ IF split_n = 0
       THEN /\ spc' = "raised"
            /\ trace_chunks' = trace_chunks
       ELSE /\ spc' = "split"
            /\ trace_chunks' = split(split_a, split_n)
    /\ UNCHANGED <<split_a, split_n>>
    /\ UNCHANGED cover_vars
    /\ UNCHANGED trans_vars

NextSplit == SplitTraces

SpecSplit == InitSplit /\ [][NextSplit]_vars

\* ================================================================ claims
RECURSIVE Descendants(_, _)
Descendants(g, seen) ==
    LET nxt == seen \cup {e[2] : e \in {d \in g.edges : d[1] \in seen}}
    IN IF nxt = seen THEN seen ELSE Descendants(g, nxt)

\* Nodes reachable from the root in the arborescence.
ReachableFromRoot == Descendants(mst, {root_node})
AllTargetsReachable == target_nodes_to_cover \subseteq ReachableFromRoot

PathsNodes(cps) == UNION {Range(cps[i]) : i \in 1..Len(cps)}
VisitedTargets == PathsNodes(returned.covering_paths) \cap target_nodes_to_cover
HasReturned == pc \in {"returned", "done"} \/ (pc = "raised" /\ err.where = "__main__")

\* C1: when every target node is reachable from the root, the returned
\* paths visit at least cvg_pct * |T| distinct target nodes.
C1_CoverageAtLeastThreshold ==
    (HasReturned /\ AllTargetsReachable) =>
        Cardinality(VisitedTargets) * CvgDen >= cvg_num * Cardinality(target_nodes_to_cover)

C1_Witness ==
    /\ pc = "returned"
    /\ AllTargetsReachable
    /\ cvg_num < CvgDen
    /\ Cardinality(target_nodes_to_cover) >= 2
    /\ VisitedTargets # target_nodes_to_cover

\* C2 as stated: with cvg_pct = 1.0 and every target reachable, the union
\* of the nodes of the returned paths equals the target set.
C2_UnionEqualsTargets ==
    (HasReturned /\ cvg_num = CvgDen /\ AllTargetsReachable) =>
        PathsNodes(returned.covering_paths) = target_nodes_to_cover

\* C2 amended: with cvg_pct = 1.0 and every target reachable, the union of
\* the nodes of the returned paths contains every target node, and beyond
\* them only nodes of the arborescence that lie on the returned root paths.
C2_UnionContainsTargets ==
    (HasReturned /\ cvg_num = CvgDen /\ AllTargetsReachable) =>
        /\ target_nodes_to_cover \subseteq PathsNodes(returned.covering_paths)
        /\ PathsNodes(returned.covering_paths) \subseteq ReachableFromRoot
        /\ (target_nodes_to_cover = {}) = (returned.covering_paths = <<>>)

C2_Witness ==
    /\ pc = "returned"
    /\ cvg_num = CvgDen
    /\ AllTargetsReachable
    /\ Len(returned.covering_paths) >= 2
    /\ PathsNodes(returned.covering_paths) # target_nodes_to_cover

C4_Arborescence ==
    (pc \in {"loop", "exit", "returned", "done"}) =>
        /\ root_node \in mst.nodes
        /\ InDegree(mst, root_node) = 0
        /\ \A n \in mst.nodes \ {root_node} : InDegree(mst, n) = 1
        /\ {n \in mst.nodes : InDegree(mst, n) = 0} = {root_node}
        /\ ReachableFromRoot = G.nodes
        /\ mst.edges \subseteq G.edges

C4_Witness ==
    /\ pc = "loop"
    /\ Cardinality(mst.nodes) = MaxNode
    /\ mst.edges # G.edges
    /\ root_node # 1

\* Re-extraction of the node sequence of a trace: the fingerprint of the
\* first pre-state, then the fingerprint of every post-state.
fp_of(val) == CHOOSE n \in DOMAIN node_map : node_map[n] = val
extract_nodes(trace) ==
    IF Len(trace) = 0 THEN <<>>
    ELSE <<fp_of(trace[1][1][2])>> \o [i \in 1..Len(trace) |-> fp_of(trace[i][3][2])]

\* C5 as stated: for every returned path, the root-only path included,
\* the node sequence re-extracted from its trace is the path.
C5_RoundTripEveryPath ==
    (pc = "done") =>
        \A i \in 1..Len(traces) : extract_nodes(traces[i]) = returned.covering_paths[i]

\* C5 amended: the round trip reproduces every returned path of two or
\* more nodes; the trace of a root-only path has no triple, so no node can
\* be re-extracted from it.
C5_RoundTripPathsWithEdges ==
    (pc = "done") =>
        /\ Len(traces) = Len(returned.covering_paths)
        /\ \A i \in 1..Len(traces) :
              LET cpath == returned.covering_paths[i]
              IN /\ Len(traces[i]) = Len(cpath) - 1
                 /\ Len(cpath) >= 2 => extract_nodes(traces[i]) = cpath
                 /\ Len(cpath) = 1 => extract_nodes(traces[i]) = <<>>

C5_Witness ==
    /\ pc = "done"
    /\ \E i \in 1..Len(traces) : Len(returned.covering_paths[i]) = MaxNode
    /\ node_map[1] # 1

Statements(lines) == UNION {Range(lines[i]) : i \in 1..Len(lines)}

\* A comparison of the search result with WT_NOTFOUND.
HasNotFoundComparison(lines) ==
    Statements(lines) \cap {"self.assertEquals(sret, wiredtiger.WT_NOTFOUND)",
                            "self.assertEqual(sret, wiredtiger.WT_NOTFOUND)"} # {}

\* An equality assertion on the value under the cursor of the transaction.
HasValueEquality(lines, tid) ==
    \E v \in Values :
        ("self.assertEquals(" \o txn_cursor_of(tid) \o ".get_value(), " \o Q(v) \o ")")
            \in Statements(lines)

IsRead == action_name = "TransactionRead" /\ tpc # "ready" /\ result.raised = None

C7_UnknownActionFails ==
    (tpc # "ready" /\ action_name \notin KnownActions) =>
        /\ result.raised = "UnknownActionError"
        /\ result.lines = <<>>

\* Line 90 divides by the edge count, line 121 by the target count.
RaisedInCover == pc = "raised" /\ err.where = "compute_path_coverings"

\* C8: on a graph with a spanning arborescence, an empty target set makes
\* compute_path_coverings return the empty list without raising.
C8_EmptyTargets ==
    (target_nodes_to_cover = {} /\ nx_arb # NoArborescence) =>
        /\ ~RaisedInCover
        /\ covering_paths = <<>>
        /\ HasReturned => returned.covering_paths = <<>>

C8_Witness ==
    /\ target_nodes_to_cover = {}
    /\ pc = "returned"
    /\ Cardinality(mst.nodes) >= 2
    /\ cvg_num < CvgDen
    /\ idx > Len(spath_keys_sorted)

\* C9: with a target outside the arborescence and cvg_pct = 1.0 the call
\* returns after every root path was examined, covers less than the whole
\* target set, and hands the achieved coverage to its caller with the
\* path list.
C9_ShortfallReported ==
    (pc = "returned" /\ cvg_num = CvgDen /\ ~AllTargetsReachable) =>
        /\ err = NoErr
        /\ idx > Len(spath_keys_sorted)
        /\ Cardinality(VisitedTargets) < Cardinality(target_nodes_to_cover)
        /\ DOMAIN returned \ {"covering_paths"} # {}

ResultClass(st) ==
    IF st \in {"WT_ROLLBACK", "WT_NOTFOUND", "WT_PREPARE_CONFLICT"} THEN st ELSE "success"

ActingStatus(post) == post[2].txnStatus.n[action_args.tid]
TimestampsOf(post) == <<post[2].allDurableTs.n, post[2].stableTs.n, post[2].oldestTs.n>>

BothTranslated ==
    /\ tpc = "both"
    /\ "tid" \in DOMAIN action_args
    /\ result.raised = None
    /\ result2.raised = None

\* C10: for an action with a transaction id, two post-states whose status
\* of that transaction is in different result classes never give the same
\* statement list, and the list depends on the status table only through
\* the entry of that transaction.
C10_DistinctPerResultClass ==
    BothTranslated =>
        /\ ResultClass(ActingStatus(post_state)) # ResultClass(ActingStatus(post_state2))
              => result.lines # result2.lines
        /\ (/\ ActingStatus(post_state) = ActingStatus(post_state2)
            /\ TimestampsOf(post_state) = TimestampsOf(post_state2))
              => result.lines = result2.lines

C10_Witness ==
    /\ BothTranslated
    /\ action_name = "TransactionRemove"
    /\ ActingStatus(post_state) = "WT_NOTFOUND"
    /\ ActingStatus(post_state2) = "STATUS_OK"
    /\ TimestampsOf(post_state) = TimestampsOf(post_state2)
    /\ post_state[2].txnStatus # post_state2[2].txnStatus

\* ---------------------------------------------------------------------
\* The greedy loop (lines 108-129)

\* A candidate is examined in a step that starts inside the loop with a
\* candidate left.
Examining == pc = "loop" /\ idx \in 1..Len(spath_keys_sorted)
Candidate == spaths[spath_keys_sorted[idx]]

\* Target nodes of a path that no path of cps contains.
NewTargets(path, cps) == (Range(path) \cap target_nodes_to_cover) \ PathsNodes(cps)

EveryPathContributes ==
    \A i \in 1..Len(covering_paths) :
        NewTargets(covering_paths[i], SubSeq(covering_paths, 1, i - 1)) # {}

CountIsDistinctTargets ==
    num_target_nodes_covered # Unassigned =>
        /\ num_target_nodes_covered =
               Cardinality(PathsNodes(covering_paths) \cap target_nodes_to_cover)
        /\ all_covered_nodes = PathsNodes(covering_paths) \cap target_nodes_to_cover

\* What a step does to the accepted paths.
GreedyStep ==
    /\ Examining =>
           IF NewTargets(Candidate, covering_paths) # {}
           THEN covering_paths' = Append(covering_paths, Candidate)
           ELSE covering_paths' = covering_paths
    /\ EveryPathContributes'
    /\ CountIsDistinctTargets'
    /\ Len(covering_paths') <= Cardinality(target_nodes_to_cover)
    /\ returned' # NoReturn => returned'.covering_paths = covering_paths'

\* C11: a candidate path is accepted if and only if, when it is examined,
\* it contains a target node that no previously accepted path contains;
\* so every accepted path contributes a new target node, the count of
\* covered target nodes counts each target once, and there are never more
\* accepted paths than target nodes.
C11_AcceptedIffNewTarget == [][GreedyStep]_vars

\* The two-branch example: root - inner node - two leaves, both leaves
\* targets, gives one path per leaf.
C11_Witness ==
    /\ pc = "returned"
    /\ Len(returned.covering_paths) = 2
    /\ Cardinality(target_nodes_to_cover) = 2
    /\ \A i \in 1..2 : /\ Len(returned.covering_paths[i]) = 3
                        /\ Last(returned.covering_paths[i]) \in target_nodes_to_cover
    /\ returned.covering_paths[1][2] = returned.covering_paths[2][2]
    /\ idx < Len(spath_keys_sorted)

\* Number of target nodes on the paths of cps, and whether it has reached
\* cvg_pct * |T|.
CoveredBy(cps) == Cardinality(PathsNodes(cps) \cap target_nodes_to_cover)
ThresholdMet(cps) ==
    CoveredBy(cps) * CvgDen >= cvg_num * Cardinality(target_nodes_to_cover)
AllButLast(cps) == SubSeq(cps, 1, Len(cps) - 1)

ShortOfThresholdBeforeLast ==
    (returned # NoReturn /\ returned.covering_paths # <<>>) =>
        ~ThresholdMet(AllButLast(returned.covering_paths))

\* C12 as stated: the paths before the last returned one are short of the
\* threshold, and no candidate is examined once the threshold is reached.
C12_StopsAtThreshold ==
    /\ ShortOfThresholdBeforeLast
    /\ Examining => ~ThresholdMet(covering_paths)

\* C12 amended: with a non-empty target set the loop stops at the first
\* accepted path that reaches the threshold (the paths before the last
\* returned one are short of it, no candidate is examined after it is
\* reached, and the loop is left early only when it is reached); with an
\* empty target set the threshold is met from the start and still every
\* candidate is examined.
C12_StopsAtThresholdNonEmptyTargets ==
    /\ ShortOfThresholdBeforeLast
    /\ (Examining /\ target_nodes_to_cover # {}) => ~ThresholdMet(covering_paths)
    /\ (pc = "exit" /\ idx <= Len(spath_keys_sorted)) => ThresholdMet(covering_paths)
    /\ (pc = "exit" /\ target_nodes_to_cover = {}) => idx > Len(spath_keys_sorted)

\* The loop was left at the second accepted path with candidates remaining.
C12_Witness ==
    /\ pc = "returned"
    /\ Len(returned.covering_paths) = 2
    /\ ThresholdMet(returned.covering_paths)
    /\ idx < Len(spath_keys_sorted)

\* A list of paths in which no path is longer than one before it.
NonIncreasingLength(cps) ==
    \A i, j \in 1..Len(cps) : i < j => Len(cps[i]) >= Len(cps[j])

CandidatePaths == [k \in 1..Len(spath_keys_sorted) |-> spaths[spath_keys_sorted[k]]]

\* C13: the candidate root paths are examined in order of descending
\* length, so in the list of accepted paths, and in the returned list, a
\* path has at least as many nodes as every path after it.
C13_NonIncreasingPathLength ==
    /\ NonIncreasingLength(CandidatePaths)
    /\ NonIncreasingLength(covering_paths)
    /\ \A i \in 1..Len(covering_paths) :
           \E k \in 1..Len(spath_keys_sorted) :
               k <= idx /\ covering_paths[i] = CandidatePaths[k]
    /\ returned # NoReturn => NonIncreasingLength(returned.covering_paths)

\* A returned list whose second path is strictly shorter than its first.
C13_Witness ==
    /\ pc = "returned"
    /\ Len(returned.covering_paths) >= 2
    /\ Len(returned.covering_paths[1]) > Len(returned.covering_paths[2])

\* The consecutive node pairs of a path (the path_edges of line 518).
PairsOf(path) == {<<path[j], path[j + 1]>> : j \in 1..(Len(path) - 1)}

\* C14: every returned path starts at the root of the arborescence, and
\* each of its consecutive node pairs is an edge of the arborescence, an
\* edge of the source graph and a key of the edge-action table holding
\* that edge; the lookup of the trace construction raises no KeyError.
C14_PathEdgesHaveActions ==
    /\ returned # NoReturn =>
           \A i \in 1..Len(returned.covering_paths) :
               LET path == returned.covering_paths[i]
               IN /\ path[1] = root_node
                  /\ \A e \in PairsOf(path) :
                         /\ e \in mst.edges
                         /\ e \in G.edges
                         /\ e \in DOMAIN edge_actions
                         /\ edge_actions[e].from = e[1]
                         /\ edge_actions[e].to = e[2]
    /\ err.type # "KeyError"

\* The traces were built from a returned path of two edges, in a graph
\* that has an edge outside the arborescence.
C14_Witness ==
    /\ pc = "done"
    /\ \E i \in 1..Len(returned.covering_paths) : Len(returned.covering_paths[i]) = 3
    /\ Len(traces) = Len(returned.covering_paths)
    /\ G.edges # mst.edges

RECURSIVE Concat(_)
Concat(chunks) ==
    IF chunks = <<>> THEN <<>>
    ELSE Head(chunks) \o Concat(Tail(chunks))

\* C15: for a shard count n >= 1, split returns exactly n chunks whose
\* concatenation in order is the input list, whose sizes differ by at most
\* one, and of which, when n exceeds the length of the list, the last
\* n - len are empty.
C15_SplitPartitionsEvenly ==
    (spc = "split" /\ split_n >= 1) =>
        /\ Len(trace_chunks) = split_n
        /\ Concat(trace_chunks) = split_a
        /\ \A i, j \in 1..split_n :
               Len(trace_chunks[i]) - Len(trace_chunks[j]) <= 1
        /\ split_n > Len(split_a) =>
               \A i \in 1..split_n :
                   Len(trace_chunks[i]) = IF i <= Len(split_a) THEN 1 ELSE 0

\* More shards than traces: one trace per chunk, then empty chunks.
C15_Witness ==
    /\ spc = "split"
    /\ Len(split_a) >= 2
    /\ split_n > Len(split_a)
    /\ split_a[1] # split_a[2]
    /\ trace_chunks[split_n] = <<>>
====
